---- MODULE Spec2Model ----
(***************************************************************************)
(* The B+ compiler of src/bplus.js: lex (a one-pass scanner with one       *)
(* character of lookahead), parse (recursive descent with precedence       *)
(* climbing and a flat symbol table), generate (a tree walk that emits C)  *)
(* and compile, the entry point that runs the three in sequence.           *)
(*                                                                         *)
(* Conventions.  A source text is a string; its characters are the         *)
(* one-character strings charAt gives.                                     *)
(* JavaScript's undefined is Undefined in a string slot and UndefinedNode  *)
(* in an object slot; a property that an object literal does not set (the  *)
(* line of the START and END tokens) is a missing record field.  An        *)
(* exception is a record: a parser error object {token, message} has kind  *)
(* "ParseError", a fault raised by the runtime has kind "TypeError".       *)
(***************************************************************************)
EXTENDS Integers, Sequences, FiniteSets, TLC

VARIABLES DEBUG, numSeparators, pc, program, loc, lineNumber, tokens, ast,
          output, thrown, console

vars == <<DEBUG, numSeparators, pc, program, loc, lineNumber, tokens, ast,
          output, thrown, console>>

Undefined == "undefined"

UndefinedNode == [type |-> Undefined]

NoThrow == [kind |-> "none"]

TypeError == [kind |-> "TypeError"]

ParseError(token, message) ==
    [kind |-> "ParseError", token |-> token, message |-> message]

(***************************************************************************)
(* Characters                                                              *)
(***************************************************************************)
Lowercase ==
    <<"a", "b", "c", "d", "e", "f", "g", "h", "i", "j", "k", "l", "m",
      "n", "o", "p", "q", "r", "s", "t", "u", "v", "w", "x", "y", "z">>

Uppercase ==
    <<"A", "B", "C", "D", "E", "F", "G", "H", "I", "J", "K", "L", "M",
      "N", "O", "P", "Q", "R", "S", "T", "U", "V", "W", "X", "Y", "Z">>

Digits == <<"0", "1", "2", "3", "4", "5", "6", "7", "8", "9">>

Punctuation ==
    ("\t" :> 9) @@ ("\n" :> 10) @@ ("\r" :> 13) @@ (" " :> 32) @@
    ("!" :> 33) @@ ("%" :> 37) @@ ("(" :> 40) @@ (")" :> 41) @@
    ("*" :> 42) @@ ("+" :> 43) @@ ("-" :> 45) @@ ("." :> 46) @@
    ("/" :> 47) @@ (":" :> 58) @@ ("<" :> 60) @@ ("=" :> 61) @@
    (">" :> 62) @@ ("@" :> 64) @@ ("{" :> 123) @@ ("}" :> 125)

IndexOf(seq, x) ==
    IF \E i \in DOMAIN seq : seq[i] = x
    THEN CHOOSE i \in DOMAIN seq : seq[i] = x
    ELSE 0

\* x.charCodeAt(0); NaN (x is the empty string) is -1: every range test fails.
charCodeAt(x) ==
    IF IndexOf(Lowercase, x) > 0 THEN 96 + IndexOf(Lowercase, x)
    ELSE IF IndexOf(Uppercase, x) > 0 THEN 64 + IndexOf(Uppercase, x)
    ELSE IF IndexOf(Digits, x) > 0 THEN 47 + IndexOf(Digits, x)
    ELSE IF x \in DOMAIN Punctuation THEN Punctuation[x]
    ELSE 0 - 1

toLowerCaseChar(x) ==
    IF IndexOf(Uppercase, x) > 0 THEN Lowercase[IndexOf(Uppercase, x)] ELSE x

toUpperCaseChar(x) ==
    IF IndexOf(Lowercase, x) > 0 THEN Uppercase[IndexOf(Lowercase, x)] ELSE x

RECURSIVE toLowerCase(_)
toLowerCase(s) ==
    IF s = "" THEN "" ELSE toLowerCaseChar(Head(s)) \o toLowerCase(Tail(s))

RECURSIVE toUpperCase(_)
toUpperCase(s) ==
    IF s = "" THEN "" ELSE toUpperCaseChar(Head(s)) \o toUpperCase(Tail(s))

isAlpha(x) ==
    \/ (charCodeAt(x) >= 65 /\ charCodeAt(x) <= 90)
    \/ (charCodeAt(x) >= 97 /\ charCodeAt(x) <= 122)

isNumeric(x) == charCodeAt(x) >= 48 /\ charCodeAt(x) <= 57

isAlphaNumeric(x) == isNumeric(x) \/ isAlpha(x)

isNewline(x) == x = "\r" \/ x = "\n"

keywords == {"let", "for", "if", "else", "while", "print", "read", "goto"}

symbols ==
    ("+" :> "OPERATOR") @@ ("-" :> "OPERATOR") @@ ("*" :> "OPERATOR") @@
    ("/" :> "OPERATOR") @@ ("%" :> "OPERATOR") @@ (">" :> "OPERATOR") @@
    ("<" :> "OPERATOR") @@ (">=" :> "OPERATOR") @@ ("<=" :> "OPERATOR") @@
    ("==" :> "OPERATOR") @@ ("=" :> "OPERATOR") @@ (":" :> "OPERATOR") @@
    (".." :> "OPERATOR") @@ ("{" :> "PAREN") @@ ("}" :> "PAREN") @@
    ("(" :> "PAREN") @@ (")" :> "PAREN")

\* symbols[k]: undefined when the table has no key k.
symbolsAt(k) == IF k \in DOMAIN symbols THEN symbols[k] ELSE Undefined

\* program.charAt(i), i counted from 0: the empty string outside the text.
charAt(text, i) ==
    IF i >= 0 /\ i < Len(text) THEN SubSeq(text, i + 1, i + 1) ELSE ""

(***************************************************************************)
(* lex: the scanner state is loc, lineNumber and tokens; c and lookahead() *)
(* are the characters at loc and loc + 1.                                  *)
(***************************************************************************)
StartToken == [symbol |-> "start", type |-> "START"]

\* An end marker pushed with the type of a line terminator.
EndTokenAsNewline == [symbol |-> "end", type |-> "NEWLINE"]

EndToken == [symbol |-> "end", type |-> "END"]

\* token(symbol, type): the token pushed while the line counter is line.
token(symbol, type, line) == [symbol |-> symbol, type |-> type, line |-> line]

RECURSIVE scanAlphaNumeric(_, _)
\* while (isAlphaNumeric(c)) advance(): the index the loop stops at.
scanAlphaNumeric(text, i) ==
    IF isAlphaNumeric(charAt(text, i)) THEN scanAlphaNumeric(text, i + 1) ELSE i

RECURSIVE scanNumeric(_, _)
\* while (isNumeric(c)) advance(): the index the loop stops at.
scanNumeric(text, i) ==
    IF isNumeric(charAt(text, i)) THEN scanNumeric(text, i + 1) ELSE i

RECURSIVE scanNewlines(_, _)
\* while (isNewline(c)) advance(): the index the loop stops at.
scanNewlines(text, i) ==
    IF isNewline(charAt(text, i)) THEN scanNewlines(text, i + 1) ELSE i

\* while (!isNewline(c)) advance() leaves the loop only at a line terminator
\* at or after i: past the end charAt gives "", which is no line terminator.
commentLoopExits(text, i) ==
    \E j \in i..(Len(text) - 1) : isNewline(charAt(text, j))

RECURSIVE scanToNewline(_, _)
\* while (!isNewline(c)) advance(): the index the loop stops at, when it does.
scanToNewline(text, i) ==
    IF isNewline(charAt(text, i)) THEN i ELSE scanToNewline(text, i + 1)

\* The branch of the main loop's if / else-if chain taken at index i.
lexBranch(text, i) ==
    LET c == charAt(text, i)
        lookahead == charAt(text, i + 1)
    IN  IF c = "/" /\ lookahead = "/" THEN "comment"
        ELSE IF c = " " \/ c = "\t" THEN "space"
        ELSE IF isNewline(c) THEN "newline"
        ELSE IF isAlpha(c) THEN "word"
        ELSE IF isNumeric(c) THEN "number"
        ELSE IF (c \o lookahead) \in DOMAIN symbols THEN "two"
        ELSE IF c \in DOMAIN symbols THEN "one"
        ELSE "none"

\* The token of an alphabetic run: a keyword or an identifier.
wordToken(ident, line) ==
    IF toLowerCase(ident) \in keywords
    THEN token(toLowerCase(ident), toUpperCase(ident), line)
    ELSE token(ident, "IDENTIFIER", line)

inLexLoop == pc = "lex" /\ loc < Len(program)

\* Skip comments (lines 103-110).  No token and no change of lineNumber.
LexComment ==
    /\ inLexLoop
    /\ lexBranch(program, loc) = "comment"
    /\ IF commentLoopExits(program, loc)
       THEN /\ loc' = scanNewlines(program, scanToNewline(program, loc))
            /\ pc' = pc
       ELSE /\ loc' = loc
            /\ pc' = "hang_comment"
    /\ UNCHANGED <<DEBUG, numSeparators, program, lineNumber, tokens, ast,
                   output, thrown, console>>

\* Skip spaces (lines 113-115).
LexSpace ==
    /\ inLexLoop
    /\ lexBranch(program, loc) = "space"
    /\ loc' = loc + 1
    /\ UNCHANGED <<DEBUG, numSeparators, pc, program, lineNumber, tokens, ast,
                   output, thrown, console>>

\* A line terminator (lines 118-122).
LexNewline ==
    /\ inLexLoop
    /\ lexBranch(program, loc) = "newline"
    /\ loc' = loc + 1
    /\ tokens' = Append(tokens, token("newline", "NEWLINE", lineNumber))
    /\ lineNumber' = lineNumber + 1
    /\ UNCHANGED <<DEBUG, numSeparators, pc, program, ast, output, thrown,
                   console>>

\* Keywords and identifiers (lines 125-141).
LexWord ==
    /\ inLexLoop
    /\ lexBranch(program, loc) = "word"
    /\ loc' = scanAlphaNumeric(program, loc)
    /\ tokens' = Append(tokens,
                        wordToken(SubSeq(program, loc + 1, loc'), lineNumber))
    /\ UNCHANGED <<DEBUG, numSeparators, pc, program, lineNumber, ast, output,
                   thrown, console>>

\* Numbers (lines 144-152).
LexNumber ==
    /\ inLexLoop
    /\ lexBranch(program, loc) = "number"
    /\ loc' = scanNumeric(program, loc)
    /\ tokens' = Append(tokens,
                        token(SubSeq(program, loc + 1, loc'), "NUMBER",
                              lineNumber))
    /\ UNCHANGED <<DEBUG, numSeparators, pc, program, lineNumber, ast, output,
                   thrown, console>>

\* Two-character operators (lines 155-159): the type is symbols[c].
LexTwoChar ==
    /\ inLexLoop
    /\ lexBranch(program, loc) = "two"
    /\ tokens' = Append(tokens,
                        token(charAt(program, loc) \o charAt(program, loc + 1),
                              symbolsAt(charAt(program, loc)), lineNumber))
    /\ loc' = loc + 2
    /\ UNCHANGED <<DEBUG, numSeparators, pc, program, lineNumber, ast, output,
                   thrown, console>>

\* Single-character operators (lines 161-164).
LexOneChar ==
    /\ inLexLoop
    /\ lexBranch(program, loc) = "one"
    /\ tokens' = Append(tokens,
                        token(charAt(program, loc),
                              symbolsAt(charAt(program, loc)), lineNumber))
    /\ loc' = loc + 1
    /\ UNCHANGED <<DEBUG, numSeparators, pc, program, lineNumber, ast, output,
                   thrown, console>>

\* No branch of the chain matches: the iteration changes nothing, so every
\* later iteration finds the same state and the loop never ends.
LexNoMatch ==
    /\ inLexLoop
    /\ lexBranch(program, loc) = "none"
    /\ pc' = "hang_main"
    /\ UNCHANGED <<DEBUG, numSeparators, program, loc, lineNumber, tokens, ast,
                   output, thrown, console>>

\* The loop ends (lines 168-170): push END and return to compile.
LexEnd ==
    /\ pc = "lex"
    /\ loc >= Len(program)
    /\ tokens' = Append(tokens, EndToken)
    /\ pc' = "parse"
    /\ UNCHANGED <<DEBUG, numSeparators, program, loc, lineNumber, ast, output,
                   thrown, console>>

(***************************************************************************)
(* parse.  The parser state p is the cursor loc (tokens[loc] is the        *)
(* current token c), the symbol table variables, and numSeparators, which  *)
(* separator() assigns without declaring.  Every parsing function returns  *)
(* the state it leaves, its value v, and the exception e it raised, if     *)
(* any.  Reading a property of c when the cursor is past the last token    *)
(* raises a TypeError.                                                     *)
(***************************************************************************)
Ret(p, v) == [p |-> p, v |-> v, e |-> NoThrow]

Throw(p, e) == [p |-> p, v |-> UndefinedNode, e |-> e]

Threw(r) == r.e.kind # "none"

\* variables.indexOf(x) !== -1
isDefined(variables, x) == \E i \in DOMAIN variables : variables[i] = x

\* c: tokens[loc], undefined outside the array.
cur(toks, p) ==
    IF p.loc >= 0 /\ p.loc < Len(toks) THEN toks[p.loc + 1] ELSE UndefinedNode

advance(p) == [p EXCEPT !.loc = @ + 1]

accept(toks, p, arg) ==
    LET c == cur(toks, p)
    IN  IF c = UndefinedNode THEN Throw(p, TypeError)
        ELSE IF c.type = arg \/ c.symbol = arg THEN Ret(advance(p), TRUE)
        ELSE Ret(p, FALSE)

\* A table with the precedences of + - and * / exchanged.
binaryOpsExchanged ==
    [op \in {"==", ">", "<", ">=", "<=", "-", "+", "*", "/"} |->
        [precedence |-> IF op \in {"*", "/"} THEN 4
                        ELSE IF op \in {"+", "-"} THEN 5 ELSE 3,
         associativity |-> "left"]]

\* The binary operators, their precedence and associativity (lines 222-232).
binaryOps ==
    ("==" :> [precedence |-> 3, associativity |-> "left"]) @@
    (">" :> [precedence |-> 3, associativity |-> "left"]) @@
    ("<" :> [precedence |-> 3, associativity |-> "left"]) @@
    (">=" :> [precedence |-> 3, associativity |-> "left"]) @@
    ("<=" :> [precedence |-> 3, associativity |-> "left"]) @@
    ("-" :> [precedence |-> 4, associativity |-> "left"]) @@
    ("+" :> [precedence |-> 4, associativity |-> "left"]) @@
    ("*" :> [precedence |-> 5, associativity |-> "left"]) @@
    ("/" :> [precedence |-> 5, associativity |-> "left"])

unaryOps ==
    ("+" :> [precedence |-> 6]) @@ ("-" :> [precedence |-> 6]) @@
    ("!" :> [precedence |-> 6])

\* The bound of a right-associative operator, whatever op is.
nextMinPrecedenceRight(op) == binaryOps[op].precedence

\* let nextMinPrecedence = assoc === "left" ? prec + 1 : prec
nextMinPrecedence(op) ==
    IF binaryOps[op].associativity = "left"
    THEN binaryOps[op].precedence + 1
    ELSE binaryOps[op].precedence

\* The test that ends the climbing loop (lines 309-312), c.type being
\* OPERATOR: binaryOps[c.symbol].precedence < minPrecedence.
belowMinPrecedence(op, minPrecedence) ==
    binaryOps[op].precedence < minPrecedence

notDefinedMessage(symbol) == "The identifier '" \o symbol \o "' is not defined."

alreadyDefinedMessage(symbol) == "Variable " \o symbol \o " is already defined"

\* Run r, and if it raised nothing, go on with K on its result.
bind(r, K(_)) == IF Threw(r) THEN r ELSE K(r)

RECURSIVE atom(_, _), expression(_, _, _), climb(_, _, _, _)

\* An identifier atom that is not looked up in variables.
identifierAtomUnchecked(toks, p) == Ret(advance(p), cur(toks, p))

\* An identifier atom (lines 279-291).
identifierAtom(toks, p) ==
    LET c == cur(toks, p)
    IN  IF ~isDefined(p.variables, c.symbol)
        THEN Throw(p, ParseError(c, notDefinedMessage(c.symbol)))
        ELSE Ret(advance(p), c)

\* A parenthesised atom (lines 244-253), ( accepted.
parenthesisAtom(toks, p) ==
    bind(expression(toks, p, 1), LAMBDA val :
    bind(accept(toks, val.p, ")"), LAMBDA close :
        IF ~close.v
        THEN Throw(close.p,
                   ParseError(cur(toks, close.p), "Unmatched '(', expected ')'"))
        ELSE Ret(close.p, val.v)))

\* A unary prefix operator and its operand (lines 255-273), c an OPERATOR.
unaryAtom(toks, p) ==
    LET c == cur(toks, p)
    IN  IF c.symbol \in DOMAIN unaryOps
        THEN bind(expression(toks, advance(p), unaryOps[c.symbol].precedence),
                  LAMBDA expr :
                      Ret(expr.p,
                          [type |-> "UNARY", operator |-> c.symbol,
                           child |-> expr.v]))
        ELSE Throw(p, ParseError(c, "Expected unary prefix operator."))

\* atom(): undefined, the cursor unmoved, when no case applies.
atom(toks, p) ==
    bind(accept(toks, p, "("), LAMBDA open :
        CASE open.v -> parenthesisAtom(toks, open.p)
          [] cur(toks, p).type = "OPERATOR" -> unaryAtom(toks, p)
          [] cur(toks, p).type = "NUMBER" -> Ret(advance(p), cur(toks, p))
          [] cur(toks, p).type = "IDENTIFIER" -> identifierAtom(toks, p)
          [] OTHER -> Ret(p, UndefinedNode))

expression(toks, p, minPrecedence) ==
    bind(atom(toks, p), LAMBDA lhs : climb(toks, lhs.p, lhs.v, minPrecedence))

\* The while (true) loop of expression (lines 304-334), lhs built so far.
\* binaryOps[c.symbol].precedence raises a TypeError when c is an OPERATOR
\* that binaryOps does not hold.
climb(toks, p, lhs, minPrecedence) ==
    LET c == cur(toks, p)
    IN  IF c = UndefinedNode THEN Throw(p, TypeError)
        ELSE IF c.type # "OPERATOR" THEN Ret(p, lhs)
        ELSE IF c.symbol \notin DOMAIN binaryOps THEN Throw(p, TypeError)
        ELSE IF belowMinPrecedence(c.symbol, minPrecedence) THEN Ret(p, lhs)
        ELSE bind(expression(toks, advance(p), nextMinPrecedence(c.symbol)),
                  LAMBDA rhs :
                      climb(toks, rhs.p,
                            [type |-> "BINARY", left |-> lhs, right |-> rhs.v,
                             operator |-> c.symbol],
                            minPrecedence))

RECURSIVE separatorLoop(_, _)
\* while (accept("NEWLINE")) numSeparators++
separatorLoop(toks, p) ==
    bind(accept(toks, p, "NEWLINE"), LAMBDA a :
        IF a.v
        THEN separatorLoop(toks, [a.p EXCEPT !.numSeparators = @ + 1])
        ELSE Ret(a.p, TRUE))

\* A separator() that counts on from the number it finds.
separatorCountingOn(toks, p, enforce) ==
    bind(separatorLoop(toks, p), LAMBDA r :
        IF enforce /\ r.p.numSeparators = 0 /\ cur(toks, r.p).type # "END"
        THEN Throw(r.p,
                   ParseError(cur(toks, r.p),
                              "Expected statement separator before '"
                                  \o cur(toks, r.p).symbol \o "'"))
        ELSE r)

separator(toks, p, enforce) ==
    bind(separatorLoop(toks, [p EXCEPT !.numSeparators = 0]), LAMBDA r :
        IF enforce /\ r.p.numSeparators = 0 /\ cur(toks, r.p).type # "END"
        THEN Throw(r.p,
                   ParseError(cur(toks, r.p),
                              "Expected statement separator before '"
                                  \o cur(toks, r.p).symbol \o "'"))
        ELSE r)

RECURSIVE statement(_, _), block(_, _), blockLoop(_, _, _), elseLoop(_, _, _)

\* A let that registers its name without looking it up.
letStatementUnchecked(toks, p) ==
    LET name == cur(toks, p)
    IN  bind(accept(toks, advance(p), "="), LAMBDA eq :
            IF ~eq.v
            THEN Throw(eq.p, ParseError(cur(toks, eq.p), "Expected ="))
            ELSE bind(expression(toks, eq.p, 1), LAMBDA rhs :
                     Ret([rhs.p EXCEPT
                              !.variables = Append(@, name.symbol)],
                         [type |-> "ASSIGNMENT", name |-> name.symbol,
                          rhs |-> rhs.v])))

\* let name = expression (lines 345-374), LET accepted.  The name is
\* whatever token follows let; it is looked up after the right-hand side.
letStatement(toks, p) ==
    LET name == cur(toks, p)
    IN  bind(accept(toks, advance(p), "="), LAMBDA eq :
            IF ~eq.v
            THEN Throw(eq.p, ParseError(cur(toks, eq.p), "Expected ="))
            ELSE bind(expression(toks, eq.p, 1), LAMBDA rhs :
                     IF isDefined(rhs.p.variables, name.symbol)
                     THEN Throw(rhs.p,
                                ParseError(name,
                                           alreadyDefinedMessage(name.symbol)))
                     ELSE Ret([rhs.p EXCEPT
                                   !.variables = Append(@, name.symbol)],
                              [type |-> "ASSIGNMENT", name |-> name.symbol,
                               rhs |-> rhs.v])))

\* name = expression (lines 384-401), = accepted.
assignStatement(toks, p, name) ==
    IF ~isDefined(p.variables, name.symbol)
    THEN Throw(p, ParseError(name, notDefinedMessage(name.symbol)))
    ELSE bind(expression(toks, p, 1), LAMBDA rhs :
             Ret(rhs.p,
                 [type |-> "ASSIGNMENT", name |-> name.symbol, rhs |-> rhs.v]))

\* name = expression, or name: (lines 377-416), c an IDENTIFIER.
identifierStatement(toks, p) ==
    LET name == cur(toks, p)
    IN  bind(accept(toks, advance(p), "="), LAMBDA eq :
            IF eq.v THEN assignStatement(toks, eq.p, name)
            ELSE bind(accept(toks, eq.p, ":"), LAMBDA colon :
                     IF colon.v
                     THEN Ret(colon.p, [type |-> "LABEL", name |-> name.symbol])
                     ELSE Throw(colon.p,
                                ParseError(cur(toks, colon.p),
                                           "Unexpected "
                                               \o cur(toks, colon.p).symbol))))

\* The node of an unconditional else (lines 459-462).
elseCondition == [type |-> "NUMBER", symbol |-> "1"]

\* s with one more condition and body.
withBranch(s, condition, body) ==
    [s EXCEPT !.conditions = Append(@, condition), !.bodies = Append(@, body)]

\* else if expression block (lines 437-452), ELSE and IF accepted.
elseIfBranch(toks, p, s) ==
    bind(expression(toks, p, 1), LAMBDA condition :
        IF condition.v = UndefinedNode
        THEN Throw(condition.p,
                   ParseError(cur(toks, condition.p), "Expected expression."))
        ELSE bind(block(toks, condition.p), LAMBDA body :
             bind(separator(toks, body.p, FALSE), LAMBDA sep :
                 elseLoop(toks, sep.p, withBranch(s, condition.v, body.v)))))

\* The state machine for else if / else (lines 433-471), s built so far.
elseLoop(toks, p, s) ==
    bind(accept(toks, p, "ELSE"), LAMBDA else :
        IF ~else.v THEN Ret(else.p, s)
        ELSE bind(accept(toks, else.p, "IF"), LAMBDA if :
                 IF if.v THEN elseIfBranch(toks, if.p, s)
                 ELSE bind(block(toks, if.p), LAMBDA body :
                          Ret(body.p, withBranch(s, elseCondition, body.v)))))

\* if expression block, then the else chain (lines 419-472), IF accepted.
ifStatement(toks, p) ==
    bind(expression(toks, p, 1), LAMBDA condition :
    bind(block(toks, condition.p), LAMBDA body :
    bind(separator(toks, body.p, FALSE), LAMBDA sep :
        elseLoop(toks, sep.p,
                 [type |-> "CONDITIONAL", conditions |-> <<condition.v>>,
                  bodies |-> <<body.v>>]))))

\* for name [=] start .. end block (lines 474-503), FOR accepted.
\* isDefined(name) is given the token object, which equals no string of
\* variables: the name is pushed every time.  advance("..") moves the cursor
\* past whatever token follows the start expression.
forStatement(toks, p) ==
    LET name == cur(toks, p)
        bound == [p EXCEPT !.variables = Append(@, name.symbol)]
    IN  bind(accept(toks, advance(bound), "="), LAMBDA eq :
        bind(expression(toks, eq.p, 1), LAMBDA start :
        bind(expression(toks, advance(start.p), 1), LAMBDA end :
        bind(block(toks, end.p), LAMBDA body :
            Ret(body.p,
                [type |-> "FOR", name |-> name.symbol, start |-> start.v,
                 end |-> end.v, body |-> body.v])))))

\* while expression block (lines 505-515), WHILE accepted.
whileStatement(toks, p) ==
    bind(expression(toks, p, 1), LAMBDA condition :
    bind(block(toks, condition.p), LAMBDA body :
        Ret(body.p,
            [type |-> "WHILE", condition |-> condition.v, body |-> body.v])))

\* print expression (lines 517-523), PRINT accepted.
printStatement(toks, p) ==
    bind(expression(toks, p, 1), LAMBDA child :
        Ret(child.p, [type |-> "PRINT", child |-> child.v]))

\* goto name (lines 531-539), goto accepted: the name is c.symbol.
gotoStatement(toks, p) ==
    LET c == cur(toks, p)
    IN  IF c = UndefinedNode THEN Throw(p, TypeError)
        ELSE Ret(advance(p), [type |-> "GOTO", name |-> c.symbol])

\* The node s of one statement: the if / else-if chain of lines 345-545.
statementNode(toks, p) ==
    bind(accept(toks, p, "LET"), LAMBDA let :
        CASE let.v -> letStatement(toks, let.p)
          [] cur(toks, p).type = "IDENTIFIER" -> identifierStatement(toks, p)
          [] accept(toks, p, "IF").v -> ifStatement(toks, advance(p))
          [] accept(toks, p, "FOR").v -> forStatement(toks, advance(p))
          [] accept(toks, p, "WHILE").v -> whileStatement(toks, advance(p))
          [] accept(toks, p, "PRINT").v -> printStatement(toks, advance(p))
          [] accept(toks, p, "READ").v -> Ret(advance(p), [type |-> "READ"])
          [] accept(toks, p, "goto").v -> gotoStatement(toks, advance(p))
          [] OTHER -> Throw(p, ParseError(cur(toks, p),
                                          "Unexpected " \o cur(toks, p).symbol)))

\* statement(): the node, then separator(true).
statement(toks, p) ==
    bind(statementNode(toks, p), LAMBDA s :
    bind(separator(toks, s.p, TRUE), LAMBDA sep : Ret(sep.p, s.v)))

\* while (!accept('}')) statements.push(statement())
blockLoop(toks, p, statements) ==
    bind(accept(toks, p, "}"), LAMBDA close :
        IF close.v THEN Ret(close.p, statements)
        ELSE bind(statement(toks, close.p), LAMBDA s :
                 blockLoop(toks, s.p, Append(statements, s.v))))

block(toks, p) ==
    bind(separator(toks, p, FALSE), LAMBDA lead :
    bind(accept(toks, lead.p, "{"), LAMBDA open :
        IF ~open.v
        THEN Throw(open.p, ParseError(cur(toks, open.p), "Expected {"))
        ELSE bind(separator(toks, open.p, FALSE), LAMBDA sep :
                 blockLoop(toks, sep.p, <<>>))))

RECURSIVE programLoop(_, _, _)
\* while (!accept("END")) statements.push(statement())
programLoop(toks, p, statements) ==
    bind(accept(toks, p, "END"), LAMBDA end :
        IF end.v THEN Ret(end.p, statements)
        ELSE bind(statement(toks, end.p), LAMBDA s :
                 programLoop(toks, s.p, Append(statements, s.v))))

\* program(): accept("START"), separator(), then the statements up to END.
parseProgram(toks, p) ==
    bind(accept(toks, p, "START"), LAMBDA start :
    bind(separator(toks, start.p, FALSE), LAMBDA sep :
        programLoop(toks, sep.p, <<>>)))

\* parse(tokens): the cursor after the first advance() is 0 and the symbol
\* table is empty; nsep is the global numSeparators the call finds.
parse(toks, nsep) ==
    bind(parseProgram(toks,
                      [loc |-> 0, variables |-> <<>>, numSeparators |-> nsep]),
         LAMBDA r : Ret(r.p, [type |-> "PROGRAM", children |-> r.v]))

(***************************************************************************)
(* generate.  The generator state g is body, the lines emitted so far, and *)
(* defined, the names whose declaration was emitted.  generateNode returns *)
(* the state it leaves, the text v of an expression node (undefined for a  *)
(* statement node) and the exception it raised, if any.                    *)
(***************************************************************************)
verbatimOp == {"+", "-", "/", "*", "==", ">=", "<=", ">", "<"}

\* The operator spliced into the text: undefined when it is not in verbatimOp.
verbatim(operator) == IF operator \in verbatimOp THEN operator ELSE Undefined

push(g, line) == [g EXCEPT !.body = Append(@, line)]

RECURSIVE joinBetween(_, _, _, _)
\* The elements lo..hi of lines with sep between them.  The range is halved
\* so that the depth of the evaluation grows with the logarithm of its length.
joinBetween(lines, sep, lo, hi) ==
    IF lo > hi THEN ""
    ELSE IF lo = hi THEN lines[lo]
    ELSE joinBetween(lines, sep, lo, (lo + hi) \div 2) \o sep
             \o joinBetween(lines, sep, (lo + hi) \div 2 + 1, hi)

\* lines.join(sep)
join(lines, sep) == joinBetween(lines, sep, 1, Len(lines))

headers == join(<<"#include <stdio.h>", "", "int main() {">>, "\n")

RECURSIVE generateNode(_, _), generateAll(_, _), generateElseIfs(_, _, _)

\* for (let child of nodes) generateNode(child)
generateAll(nodes, g) ==
    IF nodes = <<>> THEN Ret(g, Undefined)
    ELSE bind(generateNode(nodes[1], g), LAMBDA r : generateAll(Tail(nodes), r.p))

\* A block: the header line, the statements, and the closing brace.
generateBlock(header, nodes, g) ==
    bind(generateAll(nodes, push(g, header)), LAMBDA body :
        Ret(push(body.p, "}"), Undefined))

\* if (!isDefined(node.name)) body.push(`int ${node.name};`)
declare(g, name) ==
    IF ~isDefined(g.defined, name) THEN push(g, "int " \o name \o ";") ELSE g

\* case "ASSIGNMENT" (lines 656-666): the declared name is added to defined.
generateAssignment(node, g) ==
    LET declared ==
            IF ~isDefined(g.defined, node.name)
            THEN [declare(g, node.name) EXCEPT !.defined = Append(@, node.name)]
            ELSE g
    IN  bind(generateNode(node.rhs, declared), LAMBDA rhs :
            Ret(push(rhs.p, node.name \o " = " \o rhs.v \o ";"), Undefined))

\* case "WHILE" (lines 668-677)
generateWhile(node, g) ==
    bind(generateNode(node.condition, g), LAMBDA whileCond :
        generateBlock("while (" \o whileCond.v \o ") {", node.body, whileCond.p))

\* A header whose loop goes on while the variable is at most the end.
forHeaderInclusive(name, start, end) ==
    join(<<"for (" \o name \o " = " \o start \o ";",
           name \o " <= " \o end \o ";",
           name \o "++) {">>, " ")

\* The three for loop statements (lines 691-694).
forHeader(name, start, end) ==
    join(<<"for (" \o name \o " = " \o start \o ";",
           name \o " < " \o end \o ";",
           name \o "++) {">>, " ")

\* case "FOR" (lines 679-701): the name is not added to defined.
generateFor(node, g) ==
    bind(generateNode(node.start, declare(g, node.name)), LAMBDA start :
    bind(generateNode(node.end, start.p), LAMBDA end :
        generateBlock(forHeader(node.name, start.v, end.v), node.body, end.p)))

\* for (let i = 1; i < node.conditions.length; i++) (lines 718-728)
generateElseIfs(node, i, g) ==
    IF ~(i < Len(node.conditions)) THEN Ret(g, Undefined)
    ELSE bind(generateNode(node.conditions[i + 1], g), LAMBDA elseIfCond :
         bind(generateBlock("else if (" \o elseIfCond.v \o ") {",
                            node.bodies[i + 1], elseIfCond.p),
              LAMBDA body : generateElseIfs(node, i + 1, body.p)))

\* case "CONDITIONAL" (lines 703-730)
generateConditional(node, g) ==
    bind(generateNode(node.conditions[1], g), LAMBDA ifCond :
    bind(generateBlock("if (" \o ifCond.v \o ") {", node.bodies[1], ifCond.p),
         LAMBDA body : generateElseIfs(node, 1, body.p)))

\* case "PRINT" (lines 732-735)
generatePrint(node, g) ==
    bind(generateNode(node.child, g), LAMBDA printExpr :
        Ret(push(printExpr.p, "printf(\"%i\\n\", " \o printExpr.v \o ");"),
            Undefined))

\* case "UNARY" (lines 750-760)
generateUnary(node, g) ==
    bind(generateNode(node.child, g), LAMBDA child :
        Ret(child.p, "(" \o verbatim(node.operator) \o child.v \o ")"))

\* case "BINARY" (lines 764-775)
generateBinary(node, g) ==
    bind(generateNode(node.left, g), LAMBDA left :
    bind(generateNode(node.right, left.p), LAMBDA right :
        Ret(right.p,
            "(" \o left.v \o " " \o verbatim(node.operator) \o " " \o right.v
                \o ")")))

\* switch (node.type): reading the type of an undefined node raises a
\* TypeError; a type with no case (READ) emits nothing.
generateNode(node, g) ==
    IF node = UndefinedNode THEN Throw(g, TypeError)
    ELSE IF node.type = "PROGRAM" THEN generateAll(node.children, g)
    ELSE IF node.type = "ASSIGNMENT" THEN generateAssignment(node, g)
    ELSE IF node.type = "WHILE" THEN generateWhile(node, g)
    ELSE IF node.type = "FOR" THEN generateFor(node, g)
    ELSE IF node.type = "CONDITIONAL" THEN generateConditional(node, g)
    ELSE IF node.type = "PRINT" THEN generatePrint(node, g)
    ELSE IF node.type = "LABEL" THEN Ret(push(g, node.name \o ":"), Undefined)
    ELSE IF node.type = "GOTO"
    THEN Ret(push(g, "goto " \o node.name \o ";"), Undefined)
    ELSE IF node.type = "UNARY" THEN generateUnary(node, g)
    ELSE IF node.type = "BINARY" THEN generateBinary(node, g)
    ELSE IF node.type = "NUMBER" THEN Ret(g, node.symbol)
    ELSE IF node.type = "IDENTIFIER" THEN Ret(g, node.symbol)
    ELSE Ret(g, Undefined)

\* generate(ast): the headers, the body lines joined and indented, and "}".
generate(tree) ==
    bind(generateNode(tree, [body |-> <<>>, defined |-> <<>>]), LAMBDA r :
        Ret(r.p, join(<<headers, "\t" \o join(r.p.body, "\n\t"), "}">>, "\n")))

(***************************************************************************)
(* compile(program, debug): the entry point, in steps.  pc is the place    *)
(* compile has reached: idle (not called), lex, parse, generate, catch,    *)
(* done (it returned output), or one of the two places lex never leaves.   *)
(* console is what was written to the console.                             *)
(***************************************************************************)
RECURSIVE replaceCRLFBetween(_, _, _)
\* What the replacement leaves of the characters lo..hi (from 0) of the
\* text: every character but a \r that a \n follows.  The range is halved so
\* that the depth of the evaluation grows with the logarithm of the length.
replaceCRLFBetween(text, lo, hi) ==
    IF lo > hi THEN ""
    ELSE IF lo = hi
    THEN (IF charAt(text, lo) = "\r" /\ charAt(text, lo + 1) = "\n" THEN ""
          ELSE charAt(text, lo))
    ELSE replaceCRLFBetween(text, lo, (lo + hi) \div 2)
             \o replaceCRLFBetween(text, (lo + hi) \div 2 + 1, hi)

\* program.replace(/\r\n/g, '\n')
replaceCRLF(text) == replaceCRLFBetween(text, 0, Len(text) - 1)

\* debug(...args): console.log when DEBUG is set.
debugLog(flag, what) ==
    IF flag THEN <<[stream |-> "log", value |-> what]>> ELSE <<>>

\* A call compile(source, debug); debug is <<>> when the argument is not
\* passed.  lex starts: START is pushed and the first advance() is made.
Compile(sources, debugs) ==
    /\ pc = "idle"
    /\ \E source \in sources, debug \in debugs :
          /\ DEBUG' = IF debug # <<>> THEN debug[1] ELSE DEBUG
          /\ program' = replaceCRLF(source)
    /\ tokens' = <<StartToken>>
    /\ lineNumber' = 1
    /\ loc' = 0
    /\ pc' = "lex"
    /\ UNCHANGED <<numSeparators, ast, output, thrown, console>>

\* ast = parse(tokens)
Parse ==
    /\ pc = "parse"
    /\ LET r == parse(tokens, numSeparators)
       IN  /\ numSeparators' = r.p.numSeparators
           /\ thrown' = r.e
           /\ ast' = IF Threw(r) THEN ast ELSE r.v
           /\ pc' = IF Threw(r) THEN "catch" ELSE "generate"
    /\ console' = console \o debugLog(DEBUG, "tokens")
    /\ UNCHANGED <<DEBUG, program, loc, lineNumber, tokens, output>>

\* output = generate(ast); return output
Generate ==
    /\ pc = "generate"
    /\ LET r == generate(ast)
       IN  /\ thrown' = r.e
           /\ output' = IF Threw(r) THEN output ELSE r.v
           /\ pc' = IF Threw(r) THEN "catch" ELSE "done"
    /\ console' = console \o debugLog(DEBUG, "ast")
    /\ UNCHANGED <<DEBUG, numSeparators, program, loc, lineNumber, tokens, ast>>

\* catch (e): an error object that carries a token is printed by printError,
\* anything else by console.error(e); then return output.
Catch ==
    /\ pc = "catch"
    /\ console' = Append(console,
                         IF thrown.kind = "ParseError"
                            /\ thrown.token # UndefinedNode
                         THEN [stream |-> "error", value |-> "printError"]
                         ELSE [stream |-> "error", value |-> thrown.kind])
    /\ pc' = "done"
    /\ UNCHANGED <<DEBUG, numSeparators, program, loc, lineNumber, tokens, ast,
                   output, thrown>>

\* The module is loaded: DEBUG is true, and nothing was compiled.
Init ==
    /\ DEBUG = TRUE
    /\ numSeparators = 0
    /\ pc = "idle"
    /\ program = ""
    /\ loc = 0
    /\ lineNumber = 1
    /\ tokens = <<>>
    /\ ast = UndefinedNode
    /\ output = Undefined
    /\ thrown = NoThrow
    /\ console = <<>>

Pipeline ==
    \/ LexComment
    \/ LexSpace
    \/ LexNewline
    \/ LexWord
    \/ LexNumber
    \/ LexTwoChar
    \/ LexOneChar
    \/ LexNoMatch
    \/ LexEnd
    \/ Parse
    \/ Generate
    \/ Catch

(***************************************************************************)
(* The source texts compile is called with.                                *)
(***************************************************************************)
RECURSIVE concat(_)
\* The pieces of a sequence, concatenated.
concat(pieces) ==
    IF pieces = <<>> THEN "" ELSE Head(pieces) \o concat(Tail(pieces))

\* Every concatenation of at most n pieces drawn from the set pieces.
Texts(pieces, n) ==
    UNION {{concat(q) : q \in [1..k -> pieces]} : k \in 0..n}

\* Programs that between them take every branch of lex, parse and generate.
Samples ==
    { "print 2 + 3 * 4",
      "print 10 - 3 - 2",
      "let x = 1\nx = y",
      "let x = 1\nlet x = 2",
      "if 1 { print 1 } else if 0 { print 2 } else { print 3 }",
      "for i = 0..3 { print i }",
      "for i = 0..3 {\r\n\tprint i\r\n}",
      "print (1 + 2",
      "let x = 1 let y = 2",
      "// count\nlet n = 10\nwhile n >= 1 {\nn = n - 1\n}\nprint -n",
      "print 1 % 2",
      "print",
      "print !1" }

\* The way the entry points call compile: bplus(program, false) under node.
NodeDebug == {<<FALSE>>}

MaxChars == 4

LexAlphabet == {"/", "\n", "\r", " ", "a", "1", "=", ".", "!"}

LexTexts == Texts(LexAlphabet, MaxChars) \cup Samples

Next == Compile(LexTexts, NodeDebug) \/ Pipeline

\* Every text of at most MaxChars characters of LexAlphabet.
Spec == Init /\ [][Next]_vars

(***************************************************************************)
(* The lexer, over Spec.                                                   *)
(***************************************************************************)
\* C1: lex is total: for every source text it terminates and returns the
\* tokens without raising, a text that ends inside a // comment with no line
\* terminator after it included.  lex never enters a loop it cannot leave.
C1_LexIsTotal == pc \notin {"hang_comment", "hang_main"}

\* C2: a character that starts no recognised token (!, @, a lone .) is
\* skipped: the step of the main loop that finds it pushes no token, raises
\* nothing, and leaves lex at the next character.
C2_UnrecognizedIsSkipped ==
    [][(inLexLoop /\ lexBranch(program, loc) = "none")
          => /\ pc' = "lex"
             /\ loc' = loc + 1
             /\ tokens' = tokens
             /\ thrown' = thrown]_vars

(***************************************************************************)
(* Statements of a few words: every way a short token list can fail.       *)
(***************************************************************************)
MaxWords == 3

Words ==
    {"print ", "let ", "goto ", "x ", "1 ", "=", "%", ":", "+", "(", ")", "\n"}

WordTexts == Texts(Words, MaxWords) \cup Samples

NextWords == Compile(WordTexts, NodeDebug) \/ Pipeline

\* Every text of at most MaxWords words of Words.
SpecWords == Init /\ [][NextWords]_vars

\* The places (from 1) of the text at which the part begins.
placesOf(text, part) ==
    {i \in 1..(Len(text) - Len(part) + 1) :
        SubSeq(text, i, i + Len(part) - 1) = part}

\* text.includes(part)
contains(text, part) == placesOf(text, part) # {}

\* compile is in its catch block because parse raised.
parseFailed == pc = "catch" /\ ast = UndefinedNode

\* C3: every failure of parse on the tokens lex produced is a structured
\* parse error, an object with the token at fault (one of the tokens) and a
\* message, never a generic fault; so it is when an expression is followed
\* by an OPERATOR token that is no binary operator (=, :, %).
C3_ParseFailureIsStructured ==
    parseFailed
        => /\ thrown.kind = "ParseError"
           /\ \E i \in 1..Len(tokens) : thrown.token = tokens[i]
           /\ thrown.message # ""

\* C4: for every AST parse returns, generate completes without raising and
\* the C text it returns holds no undefined placeholder; so it is for a
\* print with no expression after it.
C4_GenerateCompletes ==
    (pc \in {"catch", "done"} /\ ast # UndefinedNode)
        => /\ thrown = NoThrow
           /\ pc = "done" => (output # Undefined /\ ~contains(output, "undefined"))

(***************************************************************************)
(* Blocks: a head and a block of one statement, the block written on one   *)
(* line or over three, and if / else if / else chains of such blocks.      *)
(***************************************************************************)
MaxElseIfs == 2

\* { S } on one line.
oneLine(S) == "{ " \o S \o " }"

\* The same block with S on a line of its own.
threeLines(S) == "{\n" \o S \o "\n}"

BlockHeads == {"while 1 ", "if 1 ", "for i = 0..3 "}

BlockStatements == {"print 1", "read", "goto a", "a:"}

\* The heads and the statement S of the blocks compiled.
Blocks ==
    (BlockHeads \X BlockStatements) \cup {<<"for i = 0..3 ", "print i">>}

\* The block of S, on one line or over three.
blockText(S, flat) == IF flat THEN oneLine(S) ELSE threeLines(S)

RECURSIVE elseIfs(_, _)
\* k times: else if 0 { print 2 }
elseIfs(k, flat) ==
    IF k = 0 THEN ""
    ELSE " else if 0 " \o blockText("print 2", flat) \o elseIfs(k - 1, flat)

\* if 1 { print 1 }, k else-if clauses, and the final else when there is one.
chain(k, else, flat) ==
    "if 1 " \o blockText("print 1", flat) \o elseIfs(k, flat)
        \o (IF else THEN " else " \o blockText("print 3", flat) ELSE "")

BlockTexts ==
    {b[1] \o oneLine(b[2]) : b \in Blocks}
        \cup {b[1] \o threeLines(b[2]) : b \in Blocks}
        \cup {chain(k, else, flat) :
                  k \in 0..MaxElseIfs, else \in BOOLEAN, flat \in BOOLEAN}
        \cup Samples

NextBlocks == Compile(BlockTexts, NodeDebug) \/ Pipeline

\* Every block of Blocks and every chain of at most MaxElseIfs else-ifs.
SpecBlocks == Init /\ [][NextBlocks]_vars

\* compile has left its try block: it returned, or it is in catch.
finished == pc \in {"catch", "done"}

\* The node the statement S written on the given line stands for.
nodeOf(S, line) ==
    IF S = "print 1"
    THEN [type |-> "PRINT", child |-> token("1", "NUMBER", line)]
    ELSE IF S = "print i"
    THEN [type |-> "PRINT", child |-> token("i", "IDENTIFIER", line)]
    ELSE IF S = "read" THEN [type |-> "READ"]
    ELSE IF S = "goto a" THEN [type |-> "GOTO", name |-> "a"]
    ELSE [type |-> "LABEL", name |-> "a"]

\* The (first) block of a statement node.
bodyOf(node) == IF node.type = "CONDITIONAL" THEN node.bodies[1] ELSE node.body

\* parse returned a program of one statement whose block is exactly body.
parsedBlock(body) ==
    /\ thrown = NoThrow
    /\ ast # UndefinedNode
    /\ Len(ast.children) = 1
    /\ bodyOf(ast.children[1]) = body

\* C5: a one-line block { S }, whose single statement S is followed directly
\* by the closing brace, is accepted, and the block's body is exactly S; so
\* it is for while 1 { print 1 } and for i = 0..3 { print i }.
C5_OneLineBlockAccepted ==
    \A b \in Blocks :
        (program = b[1] \o oneLine(b[2]) /\ finished)
            => parsedBlock(<<nodeOf(b[2], 1)>>)

\* The same block with S on a line of its own is accepted with body S.
ThreeLineBlockAccepted ==
    \A b \in Blocks :
        (program = b[1] \o threeLines(b[2]) /\ finished)
            => parsedBlock(<<nodeOf(b[2], 2)>>)

\* The lines generate emits for a block of one print.
printBlock(header, n) == <<header, "printf(\"%i\\n\", " \o n \o ");", "}">>

RECURSIVE elseIfLines(_)
elseIfLines(k) ==
    IF k = 0 THEN <<>>
    ELSE printBlock("else if (0) {", "2") \o elseIfLines(k - 1)

\* The C text of chain(k, else, _): one if header, then one else if header
\* for each later branch, the final else as an else if that is always true.
chainText(k, else) ==
    join(<<headers,
           "\t" \o join(printBlock("if (1) {", "1") \o elseIfLines(k)
                            \o (IF else THEN printBlock("else if (1) {", "3")
                                ELSE <<>>),
                        "\n\t"),
           "}">>, "\n")

\* The branches of a CONDITIONAL the C text executes: those whose condition
\* is not 0 while every condition before it is.
executed(node) ==
    {i \in 1..Len(node.conditions) :
        /\ node.conditions[i].symbol # "0"
        /\ \A j \in 1..(i - 1) : node.conditions[j].symbol = "0"}

\* The chain compiled to text, and exactly one of its branches executes.
compiledChain(text) ==
    /\ thrown = NoThrow
    /\ pc = "done"
    /\ output = text
    /\ Cardinality(executed(ast.children[1])) = 1

\* C6: an if, zero or more else if clauses and an optional final else, as in
\* if 1 { print 1 } else if 0 { print 2 } else { print 3 }, compile to one
\* if header and one else if header per later branch, the final else an
\* else if that is always true, and exactly one branch executes.
C6_ChainCompiles ==
    \A k \in 0..MaxElseIfs, else \in BOOLEAN :
        (program = chain(k, else, TRUE) /\ finished)
            => compiledChain(chainText(k, else))

\* The same chains with each statement on a line of its own compile so.
ThreeLineChainCompiles ==
    \A k \in 0..MaxElseIfs, else \in BOOLEAN :
        (program = chain(k, else, FALSE) /\ finished)
            => compiledChain(chainText(k, else))

(***************************************************************************)
(* Variables: programs of a few statements that define and use x and y.    *)
(***************************************************************************)
MaxLines == 3

VarLines ==
    { "let x = 1", "let x = x", "let y = x + 1", "let x = y", "x = y",
      "y = x", "print y", "for y = 1..x {\nprint y\n}",
      "for x = x..3 {\nlet y = x\n}" }

\* Every program of at most MaxLines statements of VarLines, one to a line.
VarTexts ==
    UNION {{join(q, "\n") : q \in [1..k -> VarLines]} : k \in 1..MaxLines}

NextVars == Compile(VarTexts \cup Samples, NodeDebug) \/ Pipeline

SpecVars == Init /\ [][NextVars]_vars

\* The scan stopped at a token, or reached the end of the tokens.
scanned(kind, at, names) == [kind |-> kind, token |-> at, defined |-> names]

introduced(names, symbol) == \E k \in 1..Len(names) : names[k] = symbol

RECURSIVE scopeScan(_, _, _, _, _)
\* The names of a program of VarTexts, read off its tokens from left to
\* right.  The token after let is a definition, which takes effect at the end
\* of its statement, where the name must be new; the token after for is a
\* loop variable, introduced at once; every other IDENTIFIER is a reference,
\* which needs its name introduced.  The scan stops at the first token that
\* breaks a rule.  With eager set, the name of a let must be new where it
\* stands, before the right-hand side is read.
scopeScan(toks, i, names, pending, eager) ==
    IF i > Len(toks) THEN scanned("none", UndefinedNode, names)
    ELSE IF toks[i].type = "LET"
    THEN IF eager /\ introduced(names, toks[i + 1].symbol)
         THEN scanned("redefined", toks[i + 1], names)
         ELSE scopeScan(toks, i + 2, names, <<toks[i + 1]>>, eager)
    ELSE IF toks[i].type = "FOR"
    THEN scopeScan(toks, i + 2, Append(names, toks[i + 1].symbol), pending,
                   eager)
    ELSE IF toks[i].type = "IDENTIFIER"
    THEN IF introduced(names, toks[i].symbol)
         THEN scopeScan(toks, i + 1, names, pending, eager)
         ELSE scanned("undefined", toks[i], names)
    ELSE IF toks[i].type \in {"NEWLINE", "END"} /\ pending # <<>>
    THEN IF introduced(names, pending[1].symbol)
         THEN scanned("redefined", pending[1], names)
         ELSE scopeScan(toks, i + 1, Append(names, pending[1].symbol), <<>>,
                        eager)
    ELSE scopeScan(toks, i + 1, names, pending, eager)

\* The tokens that are references: IDENTIFIERs after neither let nor for.
references(toks) ==
    {toks[i] : i \in {j \in 2..Len(toks) :
                          /\ toks[j].type = "IDENTIFIER"
                          /\ toks[j - 1].type \notin {"LET", "FOR"}}}

RECURSIVE identifiers(_), identifiersOfAll(_)
\* The IDENTIFIER nodes of the expressions under a node.
identifiers(node) ==
    IF node = UndefinedNode THEN {}
    ELSE IF node.type = "IDENTIFIER" THEN {node}
    ELSE IF node.type = "BINARY"
    THEN identifiers(node.left) \cup identifiers(node.right)
    ELSE IF node.type = "UNARY" THEN identifiers(node.child)
    ELSE IF node.type = "PRINT" THEN identifiers(node.child)
    ELSE IF node.type = "ASSIGNMENT" THEN identifiers(node.rhs)
    ELSE IF node.type = "WHILE"
    THEN identifiers(node.condition) \cup identifiersOfAll(node.body)
    ELSE IF node.type = "FOR"
    THEN identifiers(node.start) \cup identifiers(node.end)
             \cup identifiersOfAll(node.body)
    ELSE IF node.type = "CONDITIONAL"
    THEN UNION {identifiers(node.conditions[i])
                    \cup identifiersOfAll(node.bodies[i]) :
                    i \in 1..Len(node.conditions)}
    ELSE IF node.type = "PROGRAM" THEN identifiersOfAll(node.children)
    ELSE {}

identifiersOfAll(nodes) == UNION {identifiers(nodes[i]) : i \in 1..Len(nodes)}

\* parse has run on a program of VarTexts.
parsedVars == program \in VarTexts /\ pc \in {"generate", "catch", "done"}

\* C7: when parse succeeds, every Identifier node of an expression names a
\* variable that an earlier let or a for introduced; and a reference to a
\* name not yet defined (y in let x = 1 / x = y, x in let x = x) fails with a
\* "not defined" error whose token is that identifier.
C7_IdentifiersAreDefined ==
    parsedVars
        => /\ thrown = NoThrow
                 => /\ scopeScan(tokens, 1, <<>>, <<>>, FALSE).kind = "none"
                    /\ identifiers(ast) \subseteq references(tokens)
           /\ scopeScan(tokens, 1, <<>>, <<>>, FALSE).kind = "undefined"
                 => thrown =
                        ParseError(
                            scopeScan(tokens, 1, <<>>, <<>>, FALSE).token,
                            "The identifier '"
                                \o scopeScan(tokens, 1, <<>>, <<>>, FALSE)
                                       .token.symbol
                                \o "' is not defined.")

\* x = y on line 2 was refused: y is not defined.
C7_Witness ==
    /\ program = "let x = 1\nx = y"
    /\ pc = "catch"
    /\ thrown.kind = "ParseError"
    /\ thrown.token = token("y", "IDENTIFIER", 2)

\* seq.filter(y => y === x).length
count(seq, x) == Cardinality({k \in 1..Len(seq) : seq[k] = x})

\* The let statements of the program registered each new name exactly once:
\* a name a let defines is in variables once, and once more for each for
\* loop over it.
registeredOnce(toks, variables) ==
    \A j \in 1..Len(toks) :
        toks[j].type = "LET"
            => count(variables, toks[j + 1].symbol)
                   = 1 + Cardinality({h \in 1..Len(toks) :
                                          /\ toks[h].type = "FOR"
                                          /\ toks[h + 1].symbol
                                                 = toks[j + 1].symbol})

\* What C8 says of the outcome of parse, given the scan of the tokens.
redefinitionRefused(scan) ==
    /\ scan.kind = "redefined"
          => /\ thrown = ParseError(scan.token,
                                    "Variable " \o scan.token.symbol
                                        \o " is already defined")
             /\ ast = UndefinedNode
             /\ output = Undefined
    /\ thrown = NoThrow
          => registeredOnce(tokens, parse(tokens, numSeparators).p.variables)

\* C8 as the spec has it: a let of a name that is already defined fails with
\* an "already defined" error whose token is the name token of the second
\* definition, and no AST is returned; a let of a new name registers it
\* exactly once.
C8_RedefinitionRefused ==
    parsedVars => redefinitionRefused(scopeScan(tokens, 1, <<>>, <<>>, TRUE))

\* C8, amended: a let of a name that is already defined, whose right-hand
\* side parses without error, fails with an "already defined" error whose
\* token is the name token of the second definition, and no AST is returned;
\* the name is looked up after the right-hand side is parsed, so an error of
\* the right-hand side is the one reported.  A let of a new name registers it
\* exactly once.
C8_RedefinitionRefusedAfterRhs ==
    parsedVars => redefinitionRefused(scopeScan(tokens, 1, <<>>, <<>>, FALSE))

\* The second let x on line 2 was refused.
C8_Witness ==
    /\ program = "let x = 1\nlet x = 1"
    /\ pc = "catch"
    /\ thrown.kind = "ParseError"
    /\ thrown.token = token("x", "IDENTIFIER", 2)
    /\ ast = UndefinedNode

(***************************************************************************)
(* Expressions: print of an expression of numbers and binary operators.    *)
(***************************************************************************)
MaxOps == 3

\* The operand at each place of an expression.
Operands == <<"10", "3", "2", "4", "5">>

BinaryOperators == {"==", ">", "<", ">=", "<=", "-", "+", "*", "/"}

RECURSIVE expressionText(_, _)
\* The first operand, then each operator of ops and the next operand.
expressionText(ops, k) ==
    IF k = 0 THEN Operands[1]
    ELSE expressionText(ops, k - 1) \o " " \o ops[k] \o " " \o Operands[k + 1]

\* print of every expression of at most MaxOps operators.
ExprTexts ==
    UNION {{"print " \o expressionText(ops, k) :
               ops \in [1..k -> BinaryOperators]} : k \in 0..MaxOps}
        \cup {"print 2 + 3 * 4"}

NextExprs == Compile(ExprTexts \cup Samples, NodeDebug) \/ Pipeline

SpecExprs == Init /\ [][NextExprs]_vars

\* The precedence the language gives a binary operator.
claimedPrecedence(op) ==
    IF op \in {"*", "/"} THEN 5 ELSE IF op \in {"+", "-"} THEN 4 ELSE 3

RECURSIVE yield(_)
\* The symbols of an expression tree, from left to right.
yield(node) ==
    IF node.type = "BINARY"
    THEN yield(node.left) \o <<node.operator>> \o yield(node.right)
    ELSE <<node.symbol>>

RECURSIVE binaries(_)
\* The BINARY nodes of an expression tree.
binaries(node) ==
    IF node.type = "BINARY"
    THEN {node} \cup binaries(node.left) \cup binaries(node.right)
    ELSE {}

RECURSIVE numberValue(_)
\* The value of a decimal numeral.
numberValue(digits) ==
    IF digits = "" THEN 0
    ELSE 10 * numberValue(SubSeq(digits, 1, Len(digits) - 1))
             + (charCodeAt(SubSeq(digits, Len(digits), Len(digits))) - 48)

\* The value of a op b in the C text, for b not 0 and a not negative under /.
applied(op, a, b) ==
    IF op = "+" THEN a + b
    ELSE IF op = "-" THEN a - b
    ELSE IF op = "*" THEN a * b
    ELSE IF op = "/" THEN a \div b
    ELSE IF op = "==" THEN (IF a = b THEN 1 ELSE 0)
    ELSE IF op = ">" THEN (IF a > b THEN 1 ELSE 0)
    ELSE IF op = "<" THEN (IF a < b THEN 1 ELSE 0)
    ELSE IF op = ">=" THEN (IF a >= b THEN 1 ELSE 0)
    ELSE (IF a <= b THEN 1 ELSE 0)

RECURSIVE valueOf(_)
\* The value of the fully parenthesised C expression generate emits.
valueOf(node) ==
    IF node.type = "BINARY"
    THEN applied(node.operator, valueOf(node.left), valueOf(node.right))
    ELSE numberValue(node.symbol)

RECURSIVE parenthesised(_)
\* The C expression of a tree, every operation in parentheses.
parenthesised(node) ==
    IF node.type = "BINARY"
    THEN "(" \o parenthesised(node.left) \o " " \o node.operator \o " "
             \o parenthesised(node.right) \o ")"
    ELSE node.symbol

\* The C program that prints the value of a C expression.
printing(text) ==
    "#include <stdio.h>\n\nint main() {\n\tprintf(\"%i\\n\", " \o text
        \o ");\n}"

\* The expression parse built for the print of a program of ExprTexts.
printed == ast.children[1].child

\* The symbols of the tokens between print and END.
printedSymbols == [k \in 1..(Len(tokens) - 3) |-> tokens[k + 2].symbol]

\* parse has returned the tree of a program of ExprTexts.
parsedExpr == program \in ExprTexts /\ pc \in {"generate", "done"}

\* C9: an operator of higher precedence binds tighter (* / above + - above
\* the comparisons): the tree has the tokens of the expression in their
\* order, and no operand of a node is a node of lower precedence;
\* 2 + 3 * 4 is Binary(+, 2, Binary(*, 3, 4)) and evaluates to 14.
C9_PrecedenceBindsTighter ==
    parsedExpr
        => /\ yield(printed) = printedSymbols
           /\ \A n \in binaries(printed) :
                  \A child \in {n.left, n.right} :
                      child.type = "BINARY"
                          => claimedPrecedence(child.operator)
                                 >= claimedPrecedence(n.operator)
           /\ pc = "done" => output = printing(parenthesised(printed))
           /\ program = "print 2 + 3 * 4"
                  => /\ printed.operator = "+"
                     /\ printed.left.symbol = "2"
                     /\ printed.right.operator = "*"
                     /\ printed.right.left.symbol = "3"
                     /\ printed.right.right.symbol = "4"
                     /\ valueOf(printed) = 14
                     /\ pc = "done" => output = printing("(2 + (3 * 4))")

\* 2 + 3 * 4 was parsed, with * under +.
C9_Witness ==
    /\ program = "print 2 + 3 * 4"
    /\ pc = "generate"
    /\ printed.operator = "+"
    /\ printed.right.type = "BINARY"

RECURSIVE reduced(_, _, _, _)
\* One pass over operands and operators from left to right: each operator of
\* level is applied to the value before it and the operand after it; the
\* others are kept, with their operands.
reduced(values, ops, k, level) ==
    IF k > Len(ops) THEN [values |-> values, ops |-> <<>>]
    ELSE IF ops[k] \in level
    THEN reduced(SubSeq(values, 1, k - 1)
                     \o <<applied(ops[k], values[k], values[k + 1])>>
                     \o SubSeq(values, k + 2, Len(values)),
                 SubSeq(ops, 1, k - 1) \o SubSeq(ops, k + 1, Len(ops)),
                 k, level)
    ELSE reduced(values, ops, k + 1, level)

\* The operators a pass left, after the values it left.
passed(values, ops, level) ==
    [values |-> reduced(values, ops, 1, level).values,
     ops |-> SelectSeq(ops, LAMBDA op : op \notin level)]

\* The value of operands and operators read level by level, the chains of a
\* level from left to right.
leftToRight(values, ops) ==
    LET products == passed(values, ops, {"*", "/"})
        sums == passed(products.values, products.ops, {"+", "-"})
    IN  passed(sums.values, sums.ops, {"==", ">", "<", ">=", "<="}).values[1]

\* C10: operators of equal precedence associate to the left: no right
\* operand of a node is a node of the same precedence, and the expression has
\* the value of its chains evaluated from left to right;
\* 10 - 3 - 2 is (10 - 3) - 2, that is 5.
C10_EqualPrecedenceLeftAssociates ==
    parsedExpr
        => /\ yield(printed) = printedSymbols
           /\ \A n \in binaries(printed) :
                  n.right.type = "BINARY"
                      => claimedPrecedence(n.right.operator)
                             # claimedPrecedence(n.operator)
           /\ valueOf(printed)
                  = leftToRight(
                        [k \in 1..((Len(printedSymbols) + 1) \div 2) |->
                            numberValue(printedSymbols[2 * k - 1])],
                        [k \in 1..(Len(printedSymbols) \div 2) |->
                            printedSymbols[2 * k]])
           /\ program = "print 10 - 3 - 2"
                  => /\ printed.left.type = "BINARY"
                     /\ printed.right.symbol = "2"
                     /\ valueOf(printed) = 5
                     /\ pc = "done" => output = printing("((10 - 3) - 2)")

\* 10 - 3 - 2 was parsed, with the first - under the second.
C10_Witness ==
    /\ program = "print 10 - 3 - 2"
    /\ pc = "generate"
    /\ printed.operator = "-"
    /\ printed.left.type = "BINARY"
    /\ printed.left.operator = "-"

(***************************************************************************)
(* Syntax errors: a parenthesis left open, two statements on a line, and a *)
(* for whose bounds are not separated by two dots.                         *)
(***************************************************************************)
MaxParens == 2

MaxBefore == 1

RECURSIVE repeated(_, _)
\* k times the text piece.
repeated(piece, k) == IF k = 0 THEN "" ELSE piece \o repeated(piece, k - 1)

\* The expressions written after the open parentheses, with the number of
\* their tokens.
ParenSubs == {<<"1", 1>>, <<"1 + 2", 3>>, <<"(1) * 2", 5>>}

\* What follows in place of the closing parenthesis.
ParenFollowers ==
    {"", "\n", " {", " 2", " x", " ..", " print", " =", " :", " %"}

\* print, k open parentheses, the expression, j of the k closing ones, and
\* what follows.
parenText(k, sub, j, follower) ==
    "print " \o repeated("(", k) \o sub \o repeated(")", j) \o follower

ParenTexts ==
    {parenText(k, sub[1], j, follower) :
        k \in 1..MaxParens, sub \in ParenSubs, j \in 0..(MaxParens - 1),
        follower \in ParenFollowers}

\* The statements written first on a line, with the number of their tokens.
FirstStatements ==
    { <<"let x = 1", 4>>, <<"print 1", 2>>, <<"read", 1>>, <<"goto a", 2>>,
      <<"a:", 2>>, <<"while 1 {\n}", 5>>, <<"if 1 {\n} else {\n}", 9>>,
      <<"for i = 0..3 {\n}", 9>> }

\* What follows the first statement on its line, after a space.
SecondWords ==
    {"let y = 2", "print 1", "read", "1", "x", "(", ")", "{", "}", "..", "=",
     ":", "%"}

\* before well-separated statements, then two statements on one line.
sameLineText(before, first, second) ==
    repeated("read\n", before) \o first \o " " \o second

SameLineTexts ==
    {sameLineText(before, first[1], second) :
        before \in 0..MaxBefore, first \in FirstStatements,
        second \in SecondWords}

\* What stands between the two bounds of a for.
ForSeparators == {" .. ", "..", " 5 ", " x ", " = ", " ( ", " print ", " "}

ForEnds == {"3", "3 + 1", ""}

forText(between, end) == "for i = 0" \o between \o end \o " {\n}"

ForTexts == {forText(between, end) : between \in ForSeparators, end \in ForEnds}

SyntaxTexts == ParenTexts \cup SameLineTexts \cup ForTexts \cup Samples

NextSyntax == Compile(SyntaxTexts, NodeDebug) \/ Pipeline

SpecSyntax == Init /\ [][NextSyntax]_vars

\* parse ended with the unmatched-parenthesis error at tokens[at].
unmatched(at) ==
    /\ thrown = ParseError(tokens[at], "Unmatched '(', expected ')'")
    /\ ast = UndefinedNode

\* The programs of ParenTexts with the given followers end so.
unmatchedBefore(followers) ==
    \A k \in 1..MaxParens, sub \in ParenSubs, j \in 0..(MaxParens - 1),
       follower \in followers :
        (finished /\ j < k /\ program = parenText(k, sub[1], j, follower))
            => unmatched(2 + k + sub[2] + j + 1)

\* C11: an open parenthesis whose expression is not followed by a closing
\* one (a NEWLINE, END, { or any other token follows) makes parse end with a
\* structured unmatched-parenthesis error: it does not hang, and no AST is
\* returned as if the parenthesis were closed.
C11_UnmatchedParenthesisRefused == unmatchedBefore(ParenFollowers)

\* It is so when the token that follows is no OPERATOR.
UnmatchedParenthesisRefusedOtherwise ==
    unmatchedBefore(ParenFollowers \ {" =", " :", " %"})

\* parse ended with the separator error at tokens[at].
separatorExpected(at) ==
    /\ thrown = ParseError(tokens[at],
                           "Expected statement separator before '"
                               \o tokens[at].symbol \o "'")
    /\ ast = UndefinedNode
    /\ output = Undefined

\* The programs of SameLineTexts with the given second words end so.
separatorExpectedBefore(seconds) ==
    \A before \in 0..MaxBefore, first \in FirstStatements, second \in seconds :
        (finished /\ program = sameLineText(before, first[1], second))
            => separatorExpected(1 + 2 * before + first[2] + 1)

\* C12: after any statement, when no NEWLINE follows and the next token is
\* not END, parse fails with an "Expected statement separator" error whose
\* token is that next token; two statements on one line, as in
\* let x = 1 let y = 2, are never accepted.
C12_SeparatorRequired == separatorExpectedBefore(SecondWords)

\* It is so when the token that follows is no OPERATOR.
SeparatorRequiredOtherwise ==
    separatorExpectedBefore(SecondWords \ {"=", ":", "%"})

\* parse returned a program of one for statement with both its bounds.
forAccepted ==
    /\ ast # UndefinedNode
    /\ Len(ast.children) = 1
    /\ ast.children[1].type = "FOR"
    /\ ast.children[1].start # UndefinedNode
    /\ ast.children[1].end # UndefinedNode

\* parse failed with an error object that holds a token and a message.
structuredFailure ==
    /\ thrown.kind = "ParseError"
    /\ thrown.token # UndefinedNode
    /\ ast = UndefinedNode

\* C20: a for is accepted only when its start expression is followed by the
\* two dots and then by an end expression: when another token follows the
\* start expression, as in for i = 0 5 { ... }, parse fails with a
\* structured error, and returns no For node with that token dropped or with
\* no end expression.
C20_ForNeedsTwoDots ==
    \A between \in ForSeparators, end \in ForEnds :
        (finished /\ program = forText(between, end))
            => IF between \in {" .. ", ".."} /\ end # ""
               THEN forAccepted
               ELSE structuredFailure

(***************************************************************************)
(* The tokens lex returns, over Spec.                                      *)
(***************************************************************************)
\* lex has returned its tokens to compile.
lexReturned == pc \in {"parse", "generate", "catch", "done"}

\* The text a token stands for matches the source at index i (from 0).
tokenAt(text, i, t) ==
    IF t.type = "NEWLINE" THEN isNewline(charAt(text, i))
    ELSE /\ i + Len(t.symbol) <= Len(text)
         /\ IF t.type = "IDENTIFIER" \/ t.type = "NUMBER"
            THEN SubSeq(text, i + 1, i + Len(t.symbol)) = t.symbol
            ELSE toLowerCase(SubSeq(text, i + 1, i + Len(t.symbol)))
                     = t.symbol

RECURSIVE inSourceOrder(_, _, _, _)
\* The tokens toks[k], toks[k + 1], ... stand in the text from index i on,
\* one after the other: each is looked for where the one before it ended.
inSourceOrder(text, i, toks, k) ==
    IF k > Len(toks) THEN TRUE
    ELSE LET places == {j \in i..(Len(text) - 1) : tokenAt(text, j, toks[k])}
         IN  /\ places # {}
             /\ inSourceOrder(text,
                              (CHOOSE j \in places : \A h \in places : j <= h)
                                  + (IF toks[k].type = "NEWLINE" THEN 1
                                     ELSE Len(toks[k].symbol)),
                              toks, k + 1)

\* C13: for every source on which lex returns, the tokens hold exactly one
\* START token, the first, and exactly one END token, the last; the other
\* tokens lie between them, in the order of the source.
C13_StartAndEndBracket ==
    lexReturned
        => /\ Len(tokens) >= 2
           /\ tokens[1] = [symbol |-> "start", type |-> "START"]
           /\ tokens[Len(tokens)] = [symbol |-> "end", type |-> "END"]
           /\ \A k \in 2..(Len(tokens) - 1) :
                  tokens[k].type \notin {"START", "END"}
           /\ inSourceOrder(program, 0, SubSeq(tokens, 2, Len(tokens) - 1), 1)

\* lex returned the tokens of a text of two words on two lines.
C13_Witness ==
    /\ pc = "parse"
    /\ program = "a\n1"
    /\ Len(tokens) = 5

RECURSIVE lexLoop(_, _, _, _, _)
\* lex's main loop run from index i to its end: the tokens pushed, the index
\* of the first character of each, and whether the loop ends.
lexLoop(text, i, line, toks, starts) ==
    IF i >= Len(text)
    THEN [tokens |-> toks, starts |-> starts, returns |-> TRUE]
    ELSE LET branch == lexBranch(text, i)
             c == charAt(text, i)
         IN  CASE branch = "comment" ->
                      IF commentLoopExits(text, i)
                      THEN lexLoop(text,
                                   scanNewlines(text, scanToNewline(text, i)),
                                   line, toks, starts)
                      ELSE [tokens |-> toks, starts |-> starts,
                            returns |-> FALSE]
               [] branch = "space" ->
                      lexLoop(text, i + 1, line, toks, starts)
               [] branch = "newline" ->
                      lexLoop(text, i + 1, line + 1,
                              Append(toks, token("newline", "NEWLINE", line)),
                              Append(starts, i))
               [] branch = "word" ->
                      lexLoop(text, scanAlphaNumeric(text, i), line,
                              Append(toks,
                                     wordToken(SubSeq(text, i + 1,
                                                      scanAlphaNumeric(text, i)),
                                               line)),
                              Append(starts, i))
               [] branch = "number" ->
                      lexLoop(text, scanNumeric(text, i), line,
                              Append(toks,
                                     token(SubSeq(text, i + 1,
                                                  scanNumeric(text, i)),
                                           "NUMBER", line)),
                              Append(starts, i))
               [] branch = "two" ->
                      lexLoop(text, i + 2, line,
                              Append(toks,
                                     token(c \o charAt(text, i + 1),
                                           symbolsAt(c), line)),
                              Append(starts, i))
               [] branch = "one" ->
                      lexLoop(text, i + 1, line,
                              Append(toks, token(c, symbolsAt(c), line)),
                              Append(starts, i))
               [] OTHER ->
                      [tokens |-> toks, starts |-> starts, returns |-> FALSE]

\* lex(program): the tokens lex returns, START and END included, when it
\* returns.
lex(text) ==
    LET loop == lexLoop(text, 0, 1, <<StartToken>>, <<>>)
    IN  [loop EXCEPT !.tokens = IF loop.returns THEN Append(@, EndToken)
                                ELSE @]

RECURSIVE terminatorsBefore(_, _)
\* The number of line terminators among the first i characters of the text.
terminatorsBefore(text, i) ==
    IF i <= 0 THEN 0
    ELSE terminatorsBefore(text, i - 1)
             + (IF isNewline(charAt(text, i - 1)) THEN 1 ELSE 0)

usesLineFeeds(text) == \A i \in 0..(Len(text) - 1) : charAt(text, i) # "\r"

\* The tokens between START and END carry the number of the line their first
\* character is on.
linesCounted(text, toks) ==
    LET starts == lex(text).starts
    IN  /\ Len(starts) = Len(toks) - 2
        /\ \A k \in 1..Len(starts) :
               toks[k + 1].line = 1 + terminatorsBefore(text, starts[k])

\* C14: on a source whose line terminators are \n, every token lex returns
\* other than START and END has as line 1 plus the number of line terminators
\* before its first character, the tokens after // comment lines included.
C14_LineIsSourceLine ==
    (lexReturned /\ usesLineFeeds(program)) => linesCounted(program, tokens)

\* The same, for the sources that hold no // comment followed by a line
\* terminator.
LineIsSourceLineWithoutComment ==
    (lexReturned /\ usesLineFeeds(program)
        /\ \A i \in 0..(Len(program) - 1) :
               lexBranch(program, i) # "comment")
        => linesCounted(program, tokens)

\* C15: every token lex returns, START and END included, carries an integer
\* line of at least 1, so that a parse error whose token is END reports a
\* defined line.
C15_EveryTokenHasLine ==
    lexReturned
        => \A k \in 1..Len(tokens) :
               /\ "line" \in DOMAIN tokens[k]
               /\ tokens[k].line \in Nat \ {0}

\* The same, for the tokens between START and END.
EveryRealTokenHasLine ==
    lexReturned
        => \A k \in 2..(Len(tokens) - 1) :
               /\ "line" \in DOMAIN tokens[k]
               /\ tokens[k].line \in Nat \ {0}

\* C19: whenever the current character and its lookahead form one of >=, <=,
\* == and .., the step of lex pushes exactly one token, whose symbol is the
\* two characters and whose type is OPERATOR, and goes on two characters
\* later.
C19_TwoCharactersOneOperator ==
    [][(inLexLoop
           /\ charAt(program, loc) \o charAt(program, loc + 1)
                  \in {">=", "<=", "==", ".."})
          => /\ tokens' = Append(tokens,
                                 token(charAt(program, loc)
                                           \o charAt(program, loc + 1),
                                       "OPERATOR", lineNumber))
             /\ loc' = loc + 2]_vars

\* The same, for the operators that start with a character of the symbol
\* table.
TwoCharactersOneOperatorButDots ==
    [][(inLexLoop
           /\ charAt(program, loc) \o charAt(program, loc + 1)
                  \in {">=", "<=", "=="})
          => /\ tokens' = Append(tokens,
                                 token(charAt(program, loc)
                                           \o charAt(program, loc + 1),
                                       "OPERATOR", lineNumber))
             /\ loc' = loc + 2]_vars

(***************************************************************************)
(* Declarations in the generated text, over SpecVars.                      *)
(***************************************************************************)
\* text.indexOf(part), counted from 1; 0 when the part does not occur.
indexOf(text, part) ==
    IF placesOf(text, part) = {} THEN 0
    ELSE CHOOSE i \in placesOf(text, part) :
             \A j \in placesOf(text, part) : i <= j

\* The number of places of the text at which the part begins.
occurrences(text, part) == Cardinality(placesOf(text, part))

\* The name is declared at most once, and nothing of the text names it before
\* its declaration.
declaredOnceAndFirst(text, name) ==
    /\ occurrences(text, "int " \o name \o ";") <= 1
    /\ indexOf(text, name) # 0
           => indexOf(text, name) = indexOf(text, "int " \o name \o ";") + 4

compiledVars == pc = "done" /\ thrown = NoThrow /\ program \in VarTexts

\* C18: the generated text declares each variable at most once with
\* int <name>; and the declaration comes before the first statement that
\* assigns or uses the name, whatever mix of assignments and for loops the
\* program makes on the name.
C18_DeclaredOnce ==
    compiledVars => \A name \in {"x", "y"} : declaredOnceAndFirst(output, name)

\* The same, for the programs that hold no for loop.
DeclaredOnceWithoutFor ==
    (compiledVars /\ \A k \in 1..Len(tokens) : tokens[k].type # "FOR")
        => \A name \in {"x", "y"} : declaredOnceAndFirst(output, name)

(***************************************************************************)
(* compile called again and again: what one call leaves to the next.       *)
(* DEBUG and numSeparators outlive a call; tokens, ast and output are      *)
(* declared inside compile and start undefined in every call.              *)
(***************************************************************************)
\* The calls are followed until the console holds MaxLog entries.
MaxLog == 3

\* A call in which output is not declared anew: it keeps the value the call
\* before gave it.
CompileAgainStale(sources, debugs) ==
    /\ pc = "done"
    /\ Len(console) < MaxLog
    /\ \E source \in sources, debug \in debugs :
          /\ DEBUG' = IF debug # <<>> THEN debug[1] ELSE DEBUG
          /\ program' = replaceCRLF(source)
    /\ tokens' = <<StartToken>>
    /\ lineNumber' = 1
    /\ loc' = 0
    /\ ast' = UndefinedNode
    /\ thrown' = NoThrow
    /\ pc' = "lex"
    /\ UNCHANGED <<numSeparators, output, console>>

\* A call compile(source, debug) after an earlier call has returned.
CompileAgain(sources, debugs) ==
    /\ pc = "done"
    /\ Len(console) < MaxLog
    /\ \E source \in sources, debug \in debugs :
          /\ DEBUG' = IF debug # <<>> THEN debug[1] ELSE DEBUG
          /\ program' = replaceCRLF(source)
    /\ tokens' = <<StartToken>>
    /\ lineNumber' = 1
    /\ loc' = 0
    /\ ast' = UndefinedNode
    /\ output' = Undefined
    /\ thrown' = NoThrow
    /\ pc' = "lex"
    /\ UNCHANGED <<numSeparators, console>>

CallTexts ==
    { "// c\nprint 1 >= 2\n",
      "let x = 1\nx = x + 1\nprint x",
      "let x = 1 let y = 2",
      "print 1\r\nprint 2\r\n",
      "print 1 % 2",
      "print",
      "print !1",
      "print 1 // c" }

\* The debug argument: not passed, true or false.
CallDebugs == {<<>>, <<TRUE>>, <<FALSE>>}

NextCalls ==
    \/ Compile(CallTexts, CallDebugs)
    \/ CompileAgain(CallTexts, CallDebugs)
    \/ Pipeline

SpecCalls == Init /\ [][NextCalls]_vars

\* A call before the present one went as far as generate with DEBUG set.
generatedBefore ==
    \E k \in 1..Len(console) : console[k] = [stream |-> "log", value |-> "ast"]

\* The text is a whole generated program: the headers, then the closing brace
\* of main.
complete(text) ==
    /\ Len(text) > Len(headers)
    /\ SubSeq(text, 1, Len(headers)) = headers
    /\ SubSeq(text, Len(text) - 1, Len(text)) = "\n}"

\* C16: when lex, parse or generate fails, compile returns undefined, never
\* a part of the generated text and never the text of an earlier call, and
\* the failure is caught inside compile; when the three stages succeed,
\* compile returns the whole text generate built from the tree.
C16_FailureReturnsNothing ==
    pc = "done"
        => IF thrown # NoThrow
           THEN output = Undefined
           ELSE /\ ast # UndefinedNode
                /\ output = generate(ast).v
                /\ complete(output)

\* compile returned undefined for a failed source after an earlier call had
\* generated its text.
C16_Witness ==
    /\ pc = "done"
    /\ program = "print 1 % 2"
    /\ thrown = TypeError
    /\ output = Undefined
    /\ generatedBefore

\* compile(text) when nothing was compiled before: undefined when parse or
\* generate raises.
returned(text) ==
    LET lexed == lex(text)
        r == bind(parse(lexed.tokens, 0), LAMBDA tree : generate(tree.v))
    IN  IF ~lexed.returns \/ Threw(r) THEN Undefined ELSE r.v

\* C17: the value compile returns for a source is the value it returns for
\* that source when nothing was compiled before, whatever calls came first
\* and whatever DEBUG and numSeparators they left.  (What the calls write
\* to the console is no part of the value.)
C17_CallsAreIndependent == pc = "done" => output = returned(program)

\* Two statements on one line were refused in a call that found the DEBUG
\* flag and the separator count an earlier call had left.
C17_Witness ==
    /\ pc = "done"
    /\ program = "let x = 1 let y = 2"
    /\ output = Undefined
    /\ DEBUG = TRUE
    /\ generatedBefore

(***************************************************************************)
(* A conditional followed by another statement.                            *)
(***************************************************************************)
MaxNewlines == 2

\* The statements written after the conditional, with the type of the node
\* each stands for.
NextStatements ==
    {<<"print 4", "PRINT">>, <<"read", "READ">>, <<"let x = 1", "ASSIGNMENT">>,
     <<"goto a", "GOTO">>, <<"while 1 {\n}", "WHILE">>}

\* The chain, each statement on a line of its own, then n line terminators
\* and the next statement.
followedText(k, else, n, next) ==
    chain(k, else, FALSE) \o repeated("\n", n) \o next

FollowedTexts ==
    {followedText(k, else, n, next[1]) :
         k \in 0..MaxElseIfs, else \in BOOLEAN, n \in 1..MaxNewlines,
         next \in NextStatements \cup {<<"", "">>}}
        \cup Samples

NextFollowed == Compile(FollowedTexts, NodeDebug) \/ Pipeline

SpecFollowed == Init /\ [][NextFollowed]_vars

\* parse returned the conditional of the given number of branches and, after
\* it, a statement of the given type.
conditionalThen(branches, type) ==
    /\ thrown = NoThrow
    /\ ast # UndefinedNode
    /\ Len(ast.children) = 2
    /\ ast.children[1].type = "CONDITIONAL"
    /\ Len(ast.children[1].conditions) = branches
    /\ Len(ast.children[1].bodies) = branches
    /\ ast.children[2].type = type

\* C21: an if with no terminating else, with or without else if branches,
\* followed by one or more NEWLINEs and another statement, is accepted, and
\* parse yields the conditional and then that statement: the NEWLINEs after
\* the last closing brace are the conditional's separator.
C21_IfWithoutElseThenStatement ==
    \A k \in 0..MaxElseIfs, n \in 1..MaxNewlines, next \in NextStatements :
        (finished /\ program = followedText(k, FALSE, n, next[1]))
            => conditionalThen(k + 1, next[2])

\* It is so when the chain ends with an else.
IfWithElseThenStatement ==
    \A k \in 0..MaxElseIfs, n \in 1..MaxNewlines, next \in NextStatements :
        (finished /\ program = followedText(k, TRUE, n, next[1]))
            => conditionalThen(k + 2, next[2])

\* An if with no terminating else is accepted when only NEWLINEs follow it.
IfWithoutElseAtEnd ==
    \A k \in 0..MaxElseIfs, n \in 1..MaxNewlines :
        (finished /\ program = followedText(k, FALSE, n, ""))
            => /\ thrown = NoThrow
               /\ Len(ast.children) = 1
               /\ Len(ast.children[1].conditions) = k + 1

\* With a statement after it, the parse ends with the separator error at
\* that statement's first token.
IfWithoutElseRefused ==
    \A k \in 0..MaxElseIfs, n \in 1..MaxNewlines, next \in NextStatements :
        (finished /\ program = followedText(k, FALSE, n, next[1]))
            => /\ thrown.kind = "ParseError"
               /\ thrown.token = tokens[1 + 8 + 9 * k + n + 1]
               /\ thrown.message
                      = "Expected statement separator before '"
                            \o thrown.token.symbol \o "'"
               /\ ast = UndefinedNode

(***************************************************************************)
(* Programs that stop in the middle of a statement.                        *)
(***************************************************************************)
\* The beginnings of statements a program ends with.
Tails ==
    {"let", "let x", "let x =", "let x = 1", "goto", "goto a", "for", "for i",
     "for i =", "for i = 0", "for i = 0..", "for i = 0..3", "for i = 0..3 {",
     "for i = 0..3 {\n", "for i = 0..3 {\n}", "print", "print 1 +", "print (", "print (1", "while",
     "while 1", "while 1 {", "if", "if 1 {\n}", "if 1 {\n} else",
     "if 1 {\n} else if", "x", "x =", "x:", "read"}

\* Some lines of read, the tail, and n line terminators after it.
tailText(before, tail, n) ==
    repeated("read\n", before) \o tail \o repeated("\n", n)

TailTexts ==
    {tailText(before, tail, n) :
         before \in 0..MaxBefore, tail \in Tails, n \in 0..MaxNewlines}
        \cup Samples

NextTails == Compile(TailTexts, NodeDebug) \/ Pipeline

SpecTails == Init /\ [][NextTails]_vars

\* parse has run on the tokens.
parsed == pc \in {"generate", "catch", "done"}

\* The current token was read when the cursor was past END: the read finds
\* undefined, and parse ends there with a TypeError.
readPastEnd(toks) ==
    LET r == parse(toks, 0)
    IN  Threw(r) /\ r.p.loc >= Len(toks) /\ cur(toks, r.p) = UndefinedNode

\* C22: while parse runs on the tokens lex produced, the current token is a
\* defined token wherever it is inspected: the cursor is never read past
\* END, also when let, goto or for, with or without a start expression, is
\* the last thing before END.
C22_CursorStaysInside == parsed => ~readPastEnd(tokens)

\* The tokens end with let or goto, or hold a for.
endsInside(toks) ==
    \/ toks[Len(toks) - 1].type \in {"LET", "GOTO"}
    \/ \E k \in 2..Len(toks) : toks[k].type = "FOR"

\* The cursor is read past END on no other program.
CursorStaysInsideOtherwise ==
    (parsed /\ ~endsInside(tokens)) => ~readPastEnd(tokens)

\* A for loop written in full does not read past END either.
FullForStaysInside ==
    (parsed /\ \E before \in 0..MaxBefore, n \in 0..MaxNewlines :
                   program = tailText(before, "for i = 0..3 {\n}", n))
        => ~readPastEnd(tokens)

(***************************************************************************)
(* For loops: the text generate emits, and the values the C loop takes.    *)
(***************************************************************************)
MaxBody == 2

\* The start and end expressions: the source, the C text and the value.
LoopBounds ==
    {<<"0", "0", 0>>, <<"1", "1", 1>>, <<"3", "3", 3>>,
     <<"1 + 2", "(1 + 2)", 3>>, <<"-1", "(-1)", 0 - 1>>}

\* The statements of the body: the source and the C line.
BodyStatements ==
    {<<"print i", "printf(\"%i\\n\", i);">>,
     <<"print 7", "printf(\"%i\\n\", 7);">>,
     <<"goto a", "goto a;">>,
     <<"for j = i..3 {\nprint j\n}",
       "int j;\n\tfor (j = i; j < 3; j++) {\n\tprintf(\"%i\\n\", j);\n\t}">>}

\* The bodies of at most MaxBody statements, an inner loop at most once.
Bodies ==
    {body \in UNION {[1..n -> BodyStatements] : n \in 0..MaxBody} :
        Cardinality({k \in 1..Len(body) :
                         body[k][1] = "for j = i..3 {\nprint j\n}"}) <= 1}

\* for i = start..end { and the statements of the body, one to a line.
loopText(start, end, body) ==
    "for i = " \o start \o ".." \o end \o " {\n"
        \o concat([k \in 1..Len(body) |-> body[k][1] \o "\n"]) \o "}"

LoopTexts ==
    {loopText(start[1], end[1], body) :
         start \in LoopBounds, end \in LoopBounds, body \in Bodies}
        \cup Samples

NextLoops == Compile(LoopTexts, NodeDebug) \/ Pipeline

SpecLoops == Init /\ [][NextLoops]_vars

\* A C loop header on the variable name.
countingHeader(name, start, comparison, end, step) ==
    "for (" \o name \o " = " \o start \o "; " \o name \o " " \o comparison
        \o " " \o end \o "; " \o name \o step \o ") {"

\* The C program of one loop: the declaration, the header, the lines of the
\* body in order, and the closing brace.
loopProgram(header, body) ==
    "#include <stdio.h>\n\nint main() {\n\tint i;\n\t" \o header \o "\n\t"
        \o concat([k \in 1..Len(body) |-> body[k][2] \o "\n\t"]) \o "}\n}"

RECURSIVE iterations(_, _, _, _, _)
\* The values the variable has in the body of the C loop
\* for (i = value; i comparison end; i step), at most fuel of them.
iterations(value, comparison, end, step, fuel) ==
    IF fuel = 0 \/ applied(comparison, value, end) = 0 THEN <<>>
    ELSE <<value>>
             \o iterations(IF step = "++" THEN value + 1 ELSE value - 1,
                           comparison, end, step, fuel - 1)

\* start, start + 1, ..., end - 1
ascending(start, end) ==
    [k \in 1..(IF end > start THEN end - start ELSE 0) |-> start + k - 1]

\* The headers the text holds, as the comparison and the step of each.
headersIn(text, start, end) ==
    {h \in {"<", "<=", ">", ">=", "=="} \X {"++", "--"} :
        contains(text, countingHeader("i", start, h[1], end, h[2]))}

\* compile returned the C loop of the program: its text, and the values its
\* body runs for.
loopCompiled(start, end, body) ==
    /\ pc = "done"
    /\ thrown = NoThrow
    /\ output = loopProgram(countingHeader("i", start[2], "<", end[2], "++"),
                            body)
    /\ headersIn(output, start[2], end[2]) # {}
    /\ \A h \in headersIn(output, start[2], end[2]) :
           iterations(start[3], h[1], end[3], h[2], 8)
               = ascending(start[3], end[3])

\* C23: for every For node generate emits a header that sets the variable
\* to the start expression, goes on while it is strictly less than the end
\* expression and adds one, then the statements of the body in order and a
\* closing brace; the body runs for start, ..., end - 1 and never for end.
C23_ForCountsBelowEnd ==
    \A start \in LoopBounds, end \in LoopBounds, body \in Bodies :
        (finished /\ program = loopText(start[1], end[1], body))
            => loopCompiled(start, end, body)

\* for i = 0..3 with a body of print i compiled to a loop that runs for
\* 0, 1 and 2.
C23_Witness ==
    /\ pc = "done"
    /\ program = "for i = 0..3 {\nprint i\n}"
    /\ ast.children[1].type = "FOR"
    /\ contains(output, "for (i = 0; i < 3; i++) {\n\tprintf(\"%i\\n\", i);\n\t}")
    /\ iterations(0, "<", 3, "++", 8) = <<0, 1, 2>>

====
